---- MODULE Spec2Model ----
(***************************************************************************)
(* The sequencer inbox multiplexer of arbstate/inbox.go as a state         *)
(* machine: an InboxBackend cursor, the inboxMultiplexer fields, and the   *)
(* two operations Peek and Advance.  The pure functions of the batch codec *)
(* and of util/arbmath are operators, applied to inputs drawn in the       *)
(* initial state of specifications of their own.                           *)
(*                                                                         *)
(* uint64 values are modelled with a word of WordBits bits: every uint64   *)
(* addition of the source is taken modulo 2^WordBits, and MaxUint64 is the *)
(* largest value of that word.  A nil pointer or nil slice is the empty    *)
(* sequence <<>>, a non-nil pointer to v is <<v>>.                         *)
(***************************************************************************)
EXTENDS Integers, Sequences, FiniteSets, TLC

\* Width of the machine word standing for uint64.
WordBits == 3
\* Largest number of segments in one sequencer batch.
MaxSegments == 2
\* Largest sequencer inbox position the backend is driven to.
MaxPosition == 1

MaxUint64 == 2^WordBits - 1

U64(x) == x % (MaxUint64 + 1)

segmentKindL2Message == 0
segmentKindDelayedMessages == 1
segmentKindAdvanceTimestamp == 2
segmentKindAdvanceL1BlockNumber == 3

L2MessageKind_SignedTx == 4

AdvanceUnknown == "AdvanceUnknown"
AdvanceDelayedMessage == "AdvanceDelayedMessage"
AdvanceSegment == "AdvanceSegment"
AdvanceMessage == "AdvanceMessage"

SequencerAddress == "0xA4B000000000000000000073657175656e636572"

VARIABLES
    \* InboxBackend
    seqInboxPosition,               \* GetSequencerInboxPosition()
    positionWithinMessage,          \* GetPositionWithinMessage()
    seqInboxData,                   \* PeekSequencerInbox(): <<batch at the cursor>>,
                                    \* <<>> until the sequencer has posted it
    lastAfterDelayed,               \* afterDelayedMessages of the latest batch posted
    \* inboxMultiplexer
    delayedMessagesRead,
    advanceAction,
    advanceSegmentTo,
    sequencerMessageCache,
    sequencerMessageCachePosition,
    \* control: "running", "hung" (a call that never returns), "panicked"
    status,
    \* history
    lastOp,                         \* "New", "Peek", "Advance" or "Post"
    ret,                            \* what the most recent Peek on this batch returned
    retSeg,                         \* the segment index that Peek selected
    peekFrom,                       \* <<cursor and counter the latest Peek started from>>,
                                    \* <<>> once Advance has followed
    yields,                         \* the Peek results of the completed cycles of this batch
    startRead,                      \* delayedMessagesRead when this batch was entered
    \* history across batches, kept by SpecTrace only
    nextDelayed,                    \* the initial delayedMessagesRead plus the number of
                                    \* delayed messages the cycles so far have yielded;
                                    \* -1 once Advance was called with no Peek before it
    drainedTo,                      \* <<a>> when the batch just left had no segments, was
                                    \* entered with fewer than a = afterDelayedMessages
                                    \* delayed messages read; <<>> otherwise
    \* a pure function applied to an input
    input,                          \* the arguments drawn in the initial state
    call,                           \* the name of the function applied last
    result                          \* what it returned

inboxVars == <<seqInboxPosition, positionWithinMessage, seqInboxData, lastAfterDelayed,
               delayedMessagesRead, advanceAction, advanceSegmentTo,
               sequencerMessageCache, sequencerMessageCachePosition,
               status, lastOp, ret, retSeg, peekFrom, yields, startRead>>

traceVars == <<nextDelayed, drainedTo>>

pureVars == <<input, call, result>>

vars == <<inboxVars, traceVars, pureVars>>

(***************************************************************************)
(* RLP decoding of an unsigned integer: rlp.NewStream(rd, 16).Uint().      *)
(***************************************************************************)
RECURSIVE BigEndian(_)
BigEndian(bytes) ==
    IF bytes = <<>> THEN 0
    ELSE LET hi == BigEndian(SubSeq(bytes, 1, Len(bytes) - 1))
         IN  IF hi > MaxUint64 THEN MaxUint64 + 1
             ELSE hi * 256 + bytes[Len(bytes)]

RlpErr == [err |-> TRUE, val |-> 0]

RlpVal(v) == IF v > MaxUint64 THEN RlpErr ELSE [err |-> FALSE, val |-> v]

RlpUint(b) ==
    IF Len(b) = 0 THEN RlpErr                                   \* io.EOF
    ELSE IF b[1] < 128
         THEN (IF b[1] = 0 THEN RlpErr ELSE RlpVal(b[1]))       \* single byte; 0x00 is not canonical
    ELSE IF b[1] = 128 THEN RlpVal(0)                           \* empty string
    ELSE IF b[1] <= 183
         THEN LET size == b[1] - 128
                  content == SubSeq(b, 2, 1 + size)
              IN  IF size > 8 THEN RlpErr                       \* uint overflow
                  ELSE IF Len(b) - 1 < size THEN RlpErr         \* unexpected EOF
                  ELSE IF content[1] = 0 THEN RlpErr            \* leading zero
                  ELSE IF size = 1 /\ content[1] < 128 THEN RlpErr  \* non-canonical size
                  ELSE RlpVal(BigEndian(content))
    ELSE RlpErr                                                 \* long string or list

(***************************************************************************)
(* The batch codec.  The raw batch is its header, one word per 8-byte      *)
(* big-endian field, and its body: <<segments>> when the bytes after the   *)
(* header decompress and RLP-decode to the segment list, <<>> when they do *)
(* not.                                                                    *)
(***************************************************************************)
ShortHeader(data) == Len(data.header) < 5

parseSequencerMessage(data) ==
    [minTimestamp         |-> data.header[1],
     maxTimestamp         |-> data.header[2],
     minL1Block           |-> data.header[3],
     maxL1Block           |-> data.header[4],
     afterDelayedMessages |-> data.header[5],
     segments             |-> IF data.body = <<>> THEN <<>> ELSE data.body[1]]

(***************************************************************************)
(* The delayed inbox and the external L1 message parser.                   *)
(***************************************************************************)
ReadDelayedInbox(seqNum) == <<seqNum>>

ParseIncomingL1Message(data) ==
    [Header |-> [Kind        |-> "Delayed",
                 Sender      |-> "L1",
                 BlockNumber |-> 0,
                 Timestamp   |-> 0,
                 RequestId   |-> <<0, 0, data[1]>>,
                 GasPriceL1  |-> 0],
     L2msg  |-> data]

(***************************************************************************)
(* Peek, phase 1: the loop over the leading empty and timing segments.     *)
(* At a timing segment whose payload fails to decode the loop continues    *)
(* with segmentNum, timestamp and blockNumber unchanged, so it never       *)
(* exits: hung.                                                            *)
(***************************************************************************)
RECURSIVE SkipTimingSegments(_, _, _, _)
SkipTimingSegments(segments, segmentNum, timestamp, blockNumber) ==
    IF segmentNum >= Len(segments)
    THEN [hung |-> FALSE, segmentNum |-> segmentNum,
          timestamp |-> timestamp, blockNumber |-> blockNumber]
    ELSE LET segment == segments[segmentNum + 1]
         IN  IF Len(segment) = 0
             THEN SkipTimingSegments(segments, segmentNum + 1, timestamp, blockNumber)
             ELSE IF segment[1] = segmentKindAdvanceTimestamp
                     \/ segment[1] = segmentKindAdvanceL1BlockNumber
             THEN LET advancing == RlpUint(Tail(segment))
                  IN  IF advancing.err
                      THEN [hung |-> TRUE, segmentNum |-> segmentNum,
                            timestamp |-> timestamp, blockNumber |-> blockNumber]
                      ELSE IF segment[1] = segmentKindAdvanceTimestamp
                      THEN SkipTimingSegments(segments, segmentNum + 1,
                                              U64(timestamp + advancing.val), blockNumber)
                      ELSE SkipTimingSegments(segments, segmentNum + 1,
                                              timestamp, U64(blockNumber + advancing.val))
             ELSE [hung |-> FALSE, segmentNum |-> segmentNum,
                   timestamp |-> timestamp, blockNumber |-> blockNumber]

\* Peek, phase 2: if v < lo then lo, else if v > hi then hi.
ClampU64(v, lo, hi) == IF v < lo THEN lo ELSE IF v > hi THEN hi ELSE v

NilRet(err) == [meta |-> <<>>, err |-> err]

MsgRet(message, mustEndBlock, read) ==
    [meta |-> <<[Message |-> message, MustEndBlock |-> mustEndBlock,
                 DelayedMessagesRead |-> read]>>,
     err  |-> "nil"]

\* Peek, segments exhausted: the end-of-batch drain of the delayed inbox.
DrainOutcome(seqMsg) ==
    IF delayedMessagesRead < seqMsg.afterDelayedMessages
    THEN LET delayed == ParseIncomingL1Message(ReadDelayedInbox(delayedMessagesRead))
             endOfMessage == U64(delayedMessagesRead + 1) >= seqMsg.afterDelayedMessages
         IN  [ret              |-> MsgRet(delayed, endOfMessage, U64(delayedMessagesRead + 1)),
              advanceAction    |-> IF endOfMessage THEN AdvanceMessage ELSE AdvanceDelayedMessage,
              advanceSegmentTo |-> advanceSegmentTo,
              readDelayedInbox |-> <<delayedMessagesRead>>]
    ELSE [ret              |-> NilRet("reading end of sequencer message"),
          advanceAction    |-> AdvanceMessage,
          advanceSegmentTo |-> advanceSegmentTo,
          readDelayedInbox |-> <<>>]

\* Peek, an L2Message segment: the synthesized L1IncomingMessage.  Both copy
\* statements write blockNumberHash; timestampHash keeps its zero value.
L2Message(segment, segmentNum, timestamp, blockNumber) ==
    LET blockNumberHash1 == blockNumber
        blockNumberHash  == timestamp
        timestampHash    == 0
        requestId == IF Len(segment) < 2 \/ segment[2] # L2MessageKind_SignedTx
                     THEN <<64, seqInboxPosition, segmentNum>>
                     ELSE <<0, 0, 0>>
    IN  [Header |-> [Kind        |-> "L2Message",
                     Sender      |-> SequencerAddress,
                     BlockNumber |-> blockNumberHash,
                     Timestamp   |-> timestampHash,
                     RequestId   |-> requestId,
                     GasPriceL1  |-> 0],
         L2msg  |-> Tail(segment)]

\* The DelayedMessages segment as it would be handled if the count were
\* tested for zero and against afterDelayedMessages, not for a wrapped sum.
DelayedSegmentOutcomeNoWrapTest(seqMsg, segment, action0, segTo0) ==
    LET reading == RlpUint(Tail(segment))
        newRead == U64(delayedMessagesRead + reading.val)
        endOfSegment == U64(delayedMessagesRead + 1) >= newRead
        delayed == ParseIncomingL1Message(ReadDelayedInbox(delayedMessagesRead))
    IN  IF reading.err
        THEN [ret |-> NilRet("rlp"), advanceAction |-> action0, advanceSegmentTo |-> segTo0,
              readDelayedInbox |-> <<>>]
        ELSE IF reading.val = 0 \/ newRead > seqMsg.afterDelayedMessages
        THEN [ret |-> NilRet("bad delayed message reading count"),
              advanceAction |-> action0, advanceSegmentTo |-> segTo0,
              readDelayedInbox |-> <<>>]
        ELSE [ret              |-> MsgRet(delayed, endOfSegment, U64(delayedMessagesRead + 1)),
              advanceAction    |-> IF ~endOfSegment THEN AdvanceDelayedMessage ELSE action0,
              advanceSegmentTo |-> segTo0,
              readDelayedInbox |-> <<delayedMessagesRead>>]

\* Peek, a DelayedMessages segment.
DelayedSegmentOutcome(seqMsg, segment, action0, segTo0) ==
    LET reading == RlpUint(Tail(segment))
        newRead == U64(delayedMessagesRead + reading.val)
        endOfSegment == U64(delayedMessagesRead + 1) >= newRead
        delayed == ParseIncomingL1Message(ReadDelayedInbox(delayedMessagesRead))
    IN  IF reading.err
        THEN [ret |-> NilRet("rlp"), advanceAction |-> action0, advanceSegmentTo |-> segTo0,
              readDelayedInbox |-> <<>>]
        ELSE IF newRead <= delayedMessagesRead \/ newRead > seqMsg.afterDelayedMessages
        THEN [ret |-> NilRet("bad delayed message reading count"),
              advanceAction |-> action0, advanceSegmentTo |-> segTo0,
              readDelayedInbox |-> <<>>]
        ELSE [ret              |-> MsgRet(delayed, endOfSegment, U64(delayedMessagesRead + 1)),
              advanceAction    |-> IF ~endOfSegment THEN AdvanceDelayedMessage ELSE action0,
              advanceSegmentTo |-> segTo0,
              readDelayedInbox |-> <<delayedMessagesRead>>]

\* Phase 3 as it would be if the segment to advance to were recorded as
\* segmentNum, not segmentNum + 1.
SelectOutcomeTargetingSelf(seqMsg, segmentNum, timestamp, blockNumber) ==
    IF segmentNum >= Len(seqMsg.segments)
    THEN DrainOutcome(seqMsg)
    ELSE LET endOfMessage == segmentNum + 1 >= Len(seqMsg.segments)
             action0 == IF endOfMessage THEN AdvanceMessage ELSE AdvanceSegment
             segTo0  == IF endOfMessage THEN advanceSegmentTo ELSE segmentNum
             segment == seqMsg.segments[segmentNum + 1]
         IN  IF Len(segment) = 0
             THEN [ret |-> NilRet("empty sequencer message segment"),
                   advanceAction |-> action0, advanceSegmentTo |-> segTo0,
                   readDelayedInbox |-> <<>>]
             ELSE IF segment[1] = segmentKindL2Message
             THEN [ret |-> MsgRet(L2Message(segment, segmentNum, timestamp, blockNumber),
                                  endOfMessage, delayedMessagesRead),
                   advanceAction |-> action0, advanceSegmentTo |-> segTo0,
                   readDelayedInbox |-> <<>>]
             ELSE IF segment[1] = segmentKindDelayedMessages
             THEN DelayedSegmentOutcome(seqMsg, segment, action0, segTo0)
             ELSE [ret |-> NilRet("bad sequencer message segment kind"),
                   advanceAction |-> action0, advanceSegmentTo |-> segTo0,
                   readDelayedInbox |-> <<>>]

\* Peek, phase 3: select the output at segmentNum.
SelectOutcome(seqMsg, segmentNum, timestamp, blockNumber) ==
    IF segmentNum >= Len(seqMsg.segments)
    THEN DrainOutcome(seqMsg)
    ELSE LET endOfMessage == segmentNum + 1 >= Len(seqMsg.segments)
             action0 == IF endOfMessage THEN AdvanceMessage ELSE AdvanceSegment
             segTo0  == IF endOfMessage THEN advanceSegmentTo ELSE segmentNum + 1
             segment == seqMsg.segments[segmentNum + 1]
         IN  IF Len(segment) = 0
             THEN [ret |-> NilRet("empty sequencer message segment"),
                   advanceAction |-> action0, advanceSegmentTo |-> segTo0,
                   readDelayedInbox |-> <<>>]
             ELSE IF segment[1] = segmentKindL2Message
             THEN [ret |-> MsgRet(L2Message(segment, segmentNum, timestamp, blockNumber),
                                  endOfMessage, delayedMessagesRead),
                   advanceAction |-> action0, advanceSegmentTo |-> segTo0,
                   readDelayedInbox |-> <<>>]
             ELSE IF segment[1] = segmentKindDelayedMessages
             THEN DelayedSegmentOutcome(seqMsg, segment, action0, segTo0)
             ELSE [ret |-> NilRet("bad sequencer message segment kind"),
                   advanceAction |-> action0, advanceSegmentTo |-> segTo0,
                   readDelayedInbox |-> <<>>]

CacheHit ==
    sequencerMessageCache # <<>> /\ sequencerMessageCachePosition = seqInboxPosition

\* The whole of Peek on the current state: how the call ends ("returned",
\* "hung" or "panicked"), what it returns, the fields it leaves and the
\* sequence numbers it passed to ReadDelayedInbox.
PeekOutcome ==
    IF ~CacheHit /\ ShortHeader(seqInboxData[1])
    THEN [status |-> "panicked", ret |-> ret, segmentNum |-> retSeg,
          advanceAction |-> advanceAction, advanceSegmentTo |-> advanceSegmentTo,
          readDelayedInbox |-> <<>>,
          sequencerMessageCache |-> sequencerMessageCache,
          sequencerMessageCachePosition |-> sequencerMessageCachePosition]
    ELSE LET seqMsg == IF CacheHit THEN sequencerMessageCache[1]
                       ELSE parseSequencerMessage(seqInboxData[1])
             scan == SkipTimingSegments(seqMsg.segments, positionWithinMessage, 0, 0)
             timestamp == ClampU64(scan.timestamp, seqMsg.minTimestamp, seqMsg.maxTimestamp)
             blockNumber == ClampU64(scan.blockNumber, seqMsg.minL1Block, seqMsg.maxL1Block)
             sel == SelectOutcome(seqMsg, scan.segmentNum, timestamp, blockNumber)
         IN  IF scan.hung
             THEN [status |-> "hung", ret |-> ret, segmentNum |-> retSeg,
                   advanceAction |-> advanceAction, advanceSegmentTo |-> advanceSegmentTo,
                   readDelayedInbox |-> <<>>,
                   sequencerMessageCache |-> <<seqMsg>>,
                   sequencerMessageCachePosition |-> seqInboxPosition]
             ELSE [status |-> "returned", ret |-> sel.ret, segmentNum |-> scan.segmentNum,
                   advanceAction |-> sel.advanceAction,
                   advanceSegmentTo |-> sel.advanceSegmentTo,
                   readDelayedInbox |-> sel.readDelayedInbox,
                   sequencerMessageCache |-> <<seqMsg>>,
                   sequencerMessageCachePosition |-> seqInboxPosition]

(***************************************************************************)
(* The inputs: the segments, headers and batches the backend serves.       *)
(***************************************************************************)
SegmentPool ==
    { <<>>,                                                 \* empty segment
      <<segmentKindL2Message, L2MessageKind_SignedTx, 6>>,  \* signed-tx L2 message
      <<segmentKindL2Message>>,                             \* L2 message with no payload
      <<segmentKindDelayedMessages, 1>>,                    \* read 1 delayed message
      <<segmentKindDelayedMessages, 2>>,                    \* read 2 delayed messages
      <<segmentKindDelayedMessages, 128>>,                  \* read 0 delayed messages
      <<segmentKindDelayedMessages, MaxUint64>>,            \* a count that can wrap the sum
      <<segmentKindDelayedMessages>>,                       \* count missing
      <<segmentKindAdvanceTimestamp, 3>>,
      <<segmentKindAdvanceTimestamp>>,                      \* value missing: does not decode
      <<segmentKindAdvanceL1BlockNumber, 2>>,
      <<5>> }                                               \* no such kind

SegmentLists == UNION { [1..k -> SegmentPool] : k \in 0..MaxSegments }

\* <<minTimestamp, maxTimestamp, minL1Block, maxL1Block>>
BoundsPool ==
    { <<0, MaxUint64, 0, MaxUint64>>,
      <<1, 2, 1, 1>>,
      <<2, 1, 0, MaxUint64>> }

AfterDelayedPool == {0, 1, 2, MaxUint64}

BatchPool ==
    { [header |-> h \o <<a>>, body |-> <<segs>>] :
        h \in BoundsPool, a \in AfterDelayedPool, segs \in SegmentLists }
    \cup { [header |-> <<0, MaxUint64, 0, MaxUint64, a>>, body |-> <<>>] :
             a \in AfterDelayedPool }
    \cup { [header |-> <<0, 0, 0, 0>>, body |-> <<>>] }

\* afterDelayedMessages as the header carries it (0 for a truncated header).
AfterDelayedOf(data) == IF ShortHeader(data) THEN 0 ELSE data.header[5]

InitialReadPool == {0, MaxUint64 - 1, MaxUint64}

\* No pure function is being applied.
NoCall == input = <<>> /\ call = "none" /\ result = <<>>

\* No history across batches is kept.
NoTrace == nextDelayed = 0 /\ drainedTo = <<>>

(***************************************************************************)
(* NewInboxMultiplexer on a backend at the start of its first batch.       *)
(***************************************************************************)
NewInboxMultiplexer ==
    /\ seqInboxPosition = 0
    /\ positionWithinMessage = 0
    /\ \E data \in BatchPool :
          /\ seqInboxData = <<data>>
          /\ lastAfterDelayed = AfterDelayedOf(data)
    /\ delayedMessagesRead \in InitialReadPool
    /\ delayedMessagesRead <= lastAfterDelayed
    /\ advanceAction = AdvanceUnknown
    /\ advanceSegmentTo = 0
    /\ sequencerMessageCache = <<>>
    /\ sequencerMessageCachePosition = 0
    /\ status = "running"
    /\ lastOp = "New"
    /\ ret = NilRet("none")
    /\ retSeg = 0
    /\ peekFrom = <<>>
    /\ yields = <<>>
    /\ startRead = delayedMessagesRead

Init == NewInboxMultiplexer /\ NoTrace /\ NoCall

\* Peek as it would be if it stored the segment index it skipped to in the backend.
PeekMovingCursor ==
    /\ status = "running"
    /\ seqInboxData # <<>>
    /\ LET o == PeekOutcome
       IN  /\ status' = IF o.status = "returned" THEN "running" ELSE o.status
           /\ sequencerMessageCache' = o.sequencerMessageCache
           /\ sequencerMessageCachePosition' = o.sequencerMessageCachePosition
           /\ advanceAction' = o.advanceAction
           /\ advanceSegmentTo' = o.advanceSegmentTo
           /\ ret' = o.ret
           /\ retSeg' = o.segmentNum
           /\ positionWithinMessage' = o.segmentNum
    /\ lastOp' = "Peek"
    /\ peekFrom' = <<[position |-> seqInboxPosition,
                      within   |-> positionWithinMessage,
                      read     |-> delayedMessagesRead]>>
    /\ UNCHANGED <<seqInboxPosition, seqInboxData,
                   lastAfterDelayed, delayedMessagesRead, yields, startRead>>
    /\ UNCHANGED pureVars

(***************************************************************************)
(* Peek()                                                                  *)
(***************************************************************************)
Peek ==
    /\ status = "running"
    /\ seqInboxData # <<>>
    /\ LET o == PeekOutcome
       IN  /\ status' = IF o.status = "returned" THEN "running" ELSE o.status
           /\ sequencerMessageCache' = o.sequencerMessageCache
           /\ sequencerMessageCachePosition' = o.sequencerMessageCachePosition
           /\ advanceAction' = o.advanceAction
           /\ advanceSegmentTo' = o.advanceSegmentTo
           /\ ret' = o.ret
           /\ retSeg' = o.segmentNum
    /\ lastOp' = "Peek"
    /\ peekFrom' = <<[position |-> seqInboxPosition,
                      within   |-> positionWithinMessage,
                      read     |-> delayedMessagesRead]>>
    /\ UNCHANGED <<seqInboxPosition, positionWithinMessage, seqInboxData,
                   lastAfterDelayed, delayedMessagesRead, yields, startRead>>
    /\ UNCHANGED pureVars

(***************************************************************************)
(* Advance()                                                               *)
(***************************************************************************)
\* Advance as it would be if leaving a batch also reset the counter.
AdvanceResettingRead(action) ==
    IF action = AdvanceDelayedMessage THEN U64(delayedMessagesRead + 1)
    ELSE IF action = AdvanceMessage THEN 0
    ELSE delayedMessagesRead

\* delayedMessagesRead after Advance applies the action.
AdvanceDelayedMessagesRead(action) ==
    IF action = AdvanceDelayedMessage THEN U64(delayedMessagesRead + 1)
    ELSE delayedMessagesRead

\* Advance as it would be if leaving a batch kept the cached batch.
AdvanceKeepingCache(cache) == cache

\* sequencerMessageCache after Advance has left the batch: nil.
AdvanceSequencerMessageCache(cache) == <<>>

\* AdvanceSequencerInbox(): the cursor moves to the next position, position
\* within the message zero; the batch there is the sequencer's to post.
AdvanceSequencerInbox ==
    /\ seqInboxPosition' = seqInboxPosition + 1
    /\ positionWithinMessage' = 0
    /\ seqInboxData' = <<>>

Advance ==
    /\ status = "running"
    /\ seqInboxData # <<>>
    /\ UNCHANGED lastAfterDelayed
    /\ UNCHANGED pureVars
    /\ lastOp' = "Advance"
    /\ peekFrom' = <<>>
    /\ LET o == IF advanceAction = AdvanceUnknown THEN PeekOutcome
                ELSE [status |-> "returned", ret |-> ret, segmentNum |-> retSeg,
                      advanceAction |-> advanceAction,
                      advanceSegmentTo |-> advanceSegmentTo,
                      readDelayedInbox |-> <<>>,
                      sequencerMessageCache |-> sequencerMessageCache,
                      sequencerMessageCachePosition |-> sequencerMessageCachePosition]
           cycle == [seg |-> o.segmentNum, read |-> delayedMessagesRead, ret |-> o.ret]
           fatal == \/ o.advanceAction = AdvanceUnknown
                    \/ /\ o.advanceAction = AdvanceSegment
                       /\ o.advanceSegmentTo <= positionWithinMessage
       IN  /\ IF o.status # "returned" \/ fatal
              THEN /\ status' = IF o.status # "returned" THEN o.status ELSE "panicked"
                   /\ ret' = o.ret
                   /\ retSeg' = o.segmentNum
                   /\ sequencerMessageCache' = o.sequencerMessageCache
                   /\ sequencerMessageCachePosition' = o.sequencerMessageCachePosition
                   /\ advanceAction' = o.advanceAction
                   /\ advanceSegmentTo' = o.advanceSegmentTo
                   /\ UNCHANGED <<seqInboxPosition, positionWithinMessage, seqInboxData,
                                  delayedMessagesRead, yields, startRead>>
              ELSE /\ status' = "running"
                   /\ delayedMessagesRead' = AdvanceDelayedMessagesRead(o.advanceAction)
                   /\ advanceAction' = AdvanceUnknown
                   /\ advanceSegmentTo' = 0
                   /\ IF o.advanceAction = AdvanceMessage
                      THEN /\ AdvanceSequencerInbox
                           /\ sequencerMessageCache' =
                                 AdvanceSequencerMessageCache(o.sequencerMessageCache)
                           /\ sequencerMessageCachePosition' = 0
                           /\ yields' = <<>>
                           /\ startRead' = delayedMessagesRead
                           /\ ret' = NilRet("none")
                           /\ retSeg' = 0
                      ELSE /\ positionWithinMessage' =
                                 IF o.advanceAction = AdvanceSegment
                                 THEN o.advanceSegmentTo ELSE positionWithinMessage
                           /\ sequencerMessageCache' = o.sequencerMessageCache
                           /\ sequencerMessageCachePosition' = o.sequencerMessageCachePosition
                           /\ yields' = Append(yields, cycle)
                           /\ ret' = o.ret
                           /\ retSeg' = o.segmentNum
                           /\ UNCHANGED <<seqInboxPosition, seqInboxData, startRead>>

(***************************************************************************)
(* The sequencer posts the batch at the cursor's position.  A batch's      *)
(* afterDelayedMessages is never below that of the batch before it.        *)
(***************************************************************************)
SequencerPost ==
    /\ status = "running"
    /\ seqInboxData = <<>>
    /\ seqInboxPosition <= MaxPosition
    /\ \E data \in BatchPool :
          /\ AfterDelayedOf(data) >= lastAfterDelayed
          /\ seqInboxData' = <<data>>
          /\ lastAfterDelayed' = AfterDelayedOf(data)
    /\ UNCHANGED <<seqInboxPosition, positionWithinMessage,
                   delayedMessagesRead, advanceAction, advanceSegmentTo,
                   sequencerMessageCache, sequencerMessageCachePosition,
                   status, ret, retSeg, peekFrom, yields, startRead>>
    /\ UNCHANGED pureVars
    /\ lastOp' = "Post"

Next ==
    \/ Peek /\ UNCHANGED traceVars
    \/ Advance /\ UNCHANGED traceVars
    \/ SequencerPost /\ UNCHANGED traceVars

Spec == Init /\ [][Next]_vars

(***************************************************************************)
(* Properties                                                              *)
(***************************************************************************)
HasMessage(r) == r.meta # <<>>

\* C1: a Peek that returns changes neither the backend cursor (sequencer inbox
\* position, position within the message) nor delayedMessagesRead, and a
\* second Peek right after it returns the same message, MustEndBlock,
\* DelayedMessagesRead and error and records the same advanceAction and
\* advanceSegmentTo.
C1_PeekFrameAndIdempotent ==
    (lastOp = "Peek" /\ status = "running") =>
       /\ peekFrom = <<[position |-> seqInboxPosition,
                        within   |-> positionWithinMessage,
                        read     |-> delayedMessagesRead]>>
       /\ LET second == PeekOutcome
          IN  /\ second.status = "returned"
              /\ second.ret = ret
              /\ second.advanceAction = advanceAction
              /\ second.advanceSegmentTo = advanceSegmentTo

\* A Peek has returned a message and recorded a jump to the next segment.
C1_Witness ==
    /\ lastOp = "Peek"
    /\ status = "running"
    /\ HasMessage(ret)
    /\ advanceAction = AdvanceSegment
    /\ advanceSegmentTo = positionWithinMessage + 1

\* C10: delayedMessagesRead never decreases and never wraps: every step leaves
\* it unchanged or adds exactly 1 (over the integers, staying within the
\* word), and a Peek leaves it unchanged.
C10_DelayedMessagesReadMonotone ==
    [][ /\ delayedMessagesRead' \in {delayedMessagesRead, delayedMessagesRead + 1}
        /\ delayedMessagesRead' <= MaxUint64
        /\ (lastOp' = "Peek" => delayedMessagesRead' = delayedMessagesRead) ]_vars

\* An Advance has incremented the counter to just below the top of the word.
C10_Witness ==
    /\ lastOp = "Advance"
    /\ delayedMessagesRead > startRead
    /\ delayedMessagesRead = MaxUint64 - 1

\* The decoded batch at the cursor.
CurrentBatch == parseSequencerMessage(seqInboxData[1])

BatchReadable == seqInboxData # <<>> /\ ~ShortHeader(seqInboxData[1])

\* The Peek results of this batch's cycles, the cycle of a Peek that has
\* returned and is not yet followed by Advance included.
History ==
    IF lastOp = "Peek" /\ status = "running"
    THEN Append(yields, [seg |-> retSeg, read |-> delayedMessagesRead, ret |-> ret])
    ELSE yields

\* The first of the consecutive cycles up to cycle j that selected the same
\* segment as cycle j.
RunStart(H, j) ==
    CHOOSE f \in 1..j :
        /\ \A i \in f..j : H[i].seg = H[j].seg
        /\ f = 1 \/ H[f - 1].seg # H[j].seg

DelayedYield(seqNum, mustEndBlock, read) ==
    MsgRet(ParseIncomingL1Message(ReadDelayedInbox(seqNum)), mustEndBlock, read)

\* C2: a DelayedMessages segment with count n >= 1, first reached with
\* delayedMessagesRead = r where r + n <= afterDelayedMessages, is consumed in
\* exactly n cycles: the k-th cycle on it yields delayed message r+k-1 with
\* DelayedMessagesRead r+k, no error, and MustEndBlock true only for k = n;
\* the segment is left after the n-th cycle with the counter at r + n.
C2_DelayedSegmentYieldsItsCount ==
    BatchReadable =>
      LET H == History
          segs == CurrentBatch.segments
      IN  \A j \in 1..Len(H) :
            LET i == H[j].seg
            IN  (/\ i < Len(segs)
                 /\ Len(segs[i + 1]) > 0
                 /\ segs[i + 1][1] = segmentKindDelayedMessages
                 /\ ~RlpUint(Tail(segs[i + 1])).err) =>
                  LET n == RlpUint(Tail(segs[i + 1])).val
                      f == RunStart(H, j)
                      r == H[f].read
                      k == j - f + 1
                  IN  (n >= 1 /\ r + n <= CurrentBatch.afterDelayedMessages) =>
                        /\ k <= n
                        /\ H[j].ret = DelayedYield(r + k - 1, k = n, r + k)
                        /\ (j < Len(H) /\ H[j + 1].seg # i) =>
                              (k = n /\ H[j + 1].read = r + n)

\* C3: when Peek returns a message with DelayedMessagesRead = c and Advance
\* follows, delayedMessagesRead is c afterwards.
C3_YieldedCountIsCounterAfterAdvance ==
    [][ (/\ lastOp = "Peek" /\ status = "running" /\ HasMessage(ret)
         /\ lastOp' = "Advance" /\ status' = "running") =>
          delayedMessagesRead' = ret.meta[1].DelayedMessagesRead ]_vars

\* C4: when Advance moves the backend to the next batch, delayedMessagesRead
\* is at least the afterDelayedMessages of the batch being left.
C4_BatchLeftOnlyWhenDrained ==
    [][ seqInboxPosition' # seqInboxPosition =>
          delayedMessagesRead' >= CurrentBatch.afterDelayedMessages ]_vars

\* C5: a yielded message has MustEndBlock = true if and only if the Advance
\* that follows moves the backend to the next batch (advanceAction = Message).
C5_MustEndBlockIffLastOfBatch ==
    (lastOp = "Peek" /\ status = "running" /\ HasMessage(ret)) =>
       (ret.meta[1].MustEndBlock <=> advanceAction = AdvanceMessage)

IsL2Yield ==
    /\ lastOp = "Peek"
    /\ status = "running"
    /\ HasMessage(ret)
    /\ ret.meta[1].Message.Header.Kind = "L2Message"

\* C7: the Timestamp of every synthesized L2 message header lies in
\* [minTimestamp, maxTimestamp] and its BlockNumber in [minL1Block, maxL1Block].
C7_ClampLaw ==
    IsL2Yield =>
      LET h == ret.meta[1].Message.Header
          b == CurrentBatch
      IN  /\ b.minTimestamp <= h.Timestamp /\ h.Timestamp <= b.maxTimestamp
          /\ b.minL1Block <= h.BlockNumber /\ h.BlockNumber <= b.maxL1Block

\* The sum of the values of the timing segments of one kind among the
\* segments with index from..to-1.
RECURSIVE SkippedSum(_, _, _, _)
SkippedSum(segs, from, to, kind) ==
    IF from >= to THEN 0
    ELSE (IF Len(segs[from + 1]) > 0 /\ segs[from + 1][1] = kind
          THEN RlpUint(Tail(segs[from + 1])).val ELSE 0)
         + SkippedSum(segs, from + 1, to, kind)

\* C8: the header synthesized for an L2Message segment carries Timestamp =
\* clamp(sum of the skipped AdvanceTimestamp values), BlockNumber = clamp(sum
\* of the skipped AdvanceL1BlockNumber values), Sender = SequencerAddress,
\* GasPriceL1 = 0, and L2msg is the segment without its kind byte.
C8_L2HeaderFields ==
    IsL2Yield =>
      LET m == ret.meta[1].Message
          b == CurrentBatch
          sumTs == SkippedSum(b.segments, positionWithinMessage, retSeg,
                              segmentKindAdvanceTimestamp)
          sumBn == SkippedSum(b.segments, positionWithinMessage, retSeg,
                              segmentKindAdvanceL1BlockNumber)
      IN  /\ m.Header.Timestamp = ClampU64(sumTs, b.minTimestamp, b.maxTimestamp)
          /\ m.Header.BlockNumber = ClampU64(sumBn, b.minL1Block, b.maxL1Block)
          /\ m.Header.Sender = SequencerAddress
          /\ m.Header.GasPriceL1 = 0
          /\ m.L2msg = Tail(b.segments[retSeg + 1])

\* C9: Peek runs to completion on every batch: no Peek is left running for
\* ever at a timing segment whose payload fails to decode.
C9_PeekRunsToCompletion == status # "hung"

IsTimingKind(kind) ==
    kind = segmentKindAdvanceTimestamp \/ kind = segmentKindAdvanceL1BlockNumber

\* A batch every segment of which is empty, an L2 message, a timing segment
\* that decodes, or a DelayedMessages segment whose count n >= 1 keeps the
\* running count c + n within afterDelayedMessages.
RECURSIVE WellFormedFrom(_, _, _, _)
WellFormedFrom(segs, i, c, after) ==
    IF i > Len(segs) THEN TRUE
    ELSE IF Len(segs[i]) = 0 \/ segs[i][1] = segmentKindL2Message
    THEN WellFormedFrom(segs, i + 1, c, after)
    ELSE IF IsTimingKind(segs[i][1])
    THEN ~RlpUint(Tail(segs[i])).err /\ WellFormedFrom(segs, i + 1, c, after)
    ELSE IF segs[i][1] = segmentKindDelayedMessages
    THEN LET n == RlpUint(Tail(segs[i]))
         IN  /\ ~n.err
             /\ n.val >= 1
             /\ c + n.val <= after
             /\ WellFormedFrom(segs, i + 1, c + n.val, after)
    ELSE FALSE

\* The delayed messages c, c+1, ..., c+n-1 in order.
DelayedRun(c, n) == [k \in 1..n |-> <<"delayed", c + k - 1>>]

\* What a batch is to yield from segment i on, the counter being c: one
\* message per L2Message segment, n delayed messages per DelayedMessages
\* segment of count n, then the delayed messages left up to after.
RECURSIVE ExpectedYields(_, _, _, _)
ExpectedYields(segs, i, c, after) ==
    IF i > Len(segs) THEN DelayedRun(c, IF after > c THEN after - c ELSE 0)
    ELSE IF Len(segs[i]) = 0 \/ IsTimingKind(segs[i][1])
    THEN ExpectedYields(segs, i + 1, c, after)
    ELSE IF segs[i][1] = segmentKindL2Message
    THEN <<<<"l2", i - 1>>>> \o ExpectedYields(segs, i + 1, c, after)
    ELSE LET n == RlpUint(Tail(segs[i])).val
         IN  DelayedRun(c, n) \o ExpectedYields(segs, i + 1, c + n, after)

\* The cycles of H that yielded a message.
MessagesOf(H) == SelectSeq(H, LAMBDA e : HasMessage(e.ret))

\* Which message a cycle yielded: the L2 message of a segment, or the
\* delayed message of a sequence number.
YieldId(e) ==
    IF e.ret.meta[1].Message.Header.Kind = "L2Message"
    THEN <<"l2", e.seg>>
    ELSE <<"delayed", e.ret.meta[1].Message.L2msg[1]>>

\* C6: when a well-formed batch is about to be left, the messages yielded
\* from it are exactly one per L2Message segment, n per DelayedMessages
\* segment of count n, and then the delayed messages left up to
\* afterDelayedMessages, with MustEndBlock true on the last of them only.
C6_AdvanceCompleteness ==
    (/\ BatchReadable
     /\ lastOp = "Peek" /\ status = "running"
     /\ advanceAction = AdvanceMessage
     /\ WellFormedFrom(CurrentBatch.segments, 1, startRead,
                       CurrentBatch.afterDelayedMessages)) =>
      LET M == MessagesOf(History)
      IN  /\ [j \in 1..Len(M) |-> YieldId(M[j])]
               = ExpectedYields(CurrentBatch.segments, 1, startRead,
                                CurrentBatch.afterDelayedMessages)
          /\ \A j \in 1..Len(M) : M[j].ret.meta[1].MustEndBlock <=> j = Len(M)

(***************************************************************************)
(* The same machine with the history across batches kept: which delayed    *)
(* message is due next, and whether the batch just left was one without    *)
(* segments that had delayed messages to drain.                            *)
(***************************************************************************)
IsDelayedYield(r) == HasMessage(r) /\ r.meta[1].Message.Header.Kind = "Delayed"

\* The batch at the cursor has no segments (or segments that did not
\* decode) and was entered with delayed messages left to read.
EmptyBatchDue ==
    /\ BatchReadable
    /\ CurrentBatch.segments = <<>>
    /\ startRead < CurrentBatch.afterDelayedMessages

InitTrace ==
    /\ NewInboxMultiplexer
    /\ nextDelayed = delayedMessagesRead
    /\ drainedTo = <<>>
    /\ NoCall

AdvanceTrace ==
    /\ Advance
    /\ IF status' # "running"
       THEN UNCHANGED traceVars
       ELSE LET yielded == IF advanceAction = AdvanceUnknown THEN PeekOutcome.ret ELSE ret
            IN  /\ nextDelayed' = IF lastOp # "Peek" \/ nextDelayed < 0 THEN -1
                                  ELSE IF IsDelayedYield(yielded) THEN nextDelayed + 1
                                  ELSE nextDelayed
                /\ drainedTo' = IF /\ seqInboxPosition' # seqInboxPosition
                                   /\ lastOp = "Peek"
                                   /\ EmptyBatchDue
                                THEN <<CurrentBatch.afterDelayedMessages>> ELSE <<>>

NextTrace ==
    \/ Peek /\ UNCHANGED traceVars
    \/ AdvanceTrace
    \/ SequencerPost /\ UNCHANGED traceVars

SpecTrace == InitTrace /\ [][NextTrace]_vars

\* C11: a batch without segments (an empty list, or one that did not
\* decode), afterDelayedMessages = a, entered with r < a delayed messages
\* read, yields in its a - r cycles the delayed messages r, ..., a-1 with
\* DelayedMessagesRead r+1, ..., a and MustEndBlock on the last only; and the
\* Peek after those cycles, the backend having nothing further to offer (its
\* next batch has no segments either and the same afterDelayedMessages),
\* returns the end-of-sequencer-message error.
C11_EmptyBatchDrainsDelayed ==
    /\ EmptyBatchDue =>
         LET H == History
             a == CurrentBatch.afterDelayedMessages
             r == startRead
         IN  /\ Len(H) <= a - r
             /\ \A j \in 1..Len(H) : H[j].ret = DelayedYield(r + j - 1, j = a - r, r + j)
             /\ (lastOp = "Peek" /\ status = "running") =>
                   (advanceAction = AdvanceMessage <=> Len(H) = a - r)
    /\ (/\ lastOp = "Peek" /\ status = "running"
        /\ drainedTo # <<>>
        /\ BatchReadable
        /\ CurrentBatch.segments = <<>>
        /\ CurrentBatch.afterDelayedMessages = drainedTo[1]) =>
          ret = NilRet("reading end of sequencer message")

\* The Peek that has just returned selected a DelayedMessages segment whose
\* count decodes.
SelectedDelayedSegment ==
    /\ lastOp = "Peek" /\ status = "running"
    /\ BatchReadable
    /\ retSeg < Len(CurrentBatch.segments)
    /\ LET segment == CurrentBatch.segments[retSeg + 1]
       IN  /\ Len(segment) > 0
           /\ segment[1] = segmentKindDelayedMessages
           /\ ~RlpUint(Tail(segment)).err

\* C18: a Peek that selects a DelayedMessages segment with decoded count
\* reading returns the bad-count error, and no message, exactly when
\* reading = 0 or delayedMessagesRead + reading, over the integers, exceeds
\* afterDelayedMessages; it then has not read the delayed inbox, has left
\* delayedMessagesRead as it was, and has recorded the action that moves
\* past the segment: Segment, to the next segment, if segments follow, else
\* Message.
C18_BadDelayedCount ==
    SelectedDelayedSegment =>
      LET segs == CurrentBatch.segments
          reading == RlpUint(Tail(segs[retSeg + 1])).val
          bad == \/ reading = 0
                 \/ delayedMessagesRead + reading > CurrentBatch.afterDelayedMessages
      IN  /\ (ret = NilRet("bad delayed message reading count")) <=> bad
          /\ HasMessage(ret) <=> ~bad
          /\ bad =>
               /\ PeekOutcome.readDelayedInbox = <<>>
               /\ peekFrom[1].read = delayedMessagesRead
               /\ advanceAction = IF retSeg + 1 < Len(segs)
                                  THEN AdvanceSegment ELSE AdvanceMessage
               /\ advanceAction = AdvanceSegment =>
                     /\ advanceSegmentTo = retSeg + 1
                     /\ advanceSegmentTo > positionWithinMessage

\* Peek has refused a count whose sum with delayedMessagesRead wraps.
C18_Witness ==
    /\ SelectedDelayedSegment
    /\ ret = NilRet("bad delayed message reading count")
    /\ delayedMessagesRead > 0
    /\ delayedMessagesRead
         + RlpUint(Tail(CurrentBatch.segments[retSeg + 1])).val > MaxUint64

\* The effects of Advance, one per recorded action.
DelayedMessageEffect ==
    /\ delayedMessagesRead' = delayedMessagesRead + 1
    /\ seqInboxPosition' = seqInboxPosition
    /\ positionWithinMessage' = positionWithinMessage

SegmentEffect ==
    /\ positionWithinMessage' > positionWithinMessage
    /\ seqInboxPosition' = seqInboxPosition
    /\ delayedMessagesRead' = delayedMessagesRead

MessageEffect ==
    /\ seqInboxPosition' = seqInboxPosition + 1
    /\ positionWithinMessage' = 0
    /\ delayedMessagesRead' = delayedMessagesRead
    /\ sequencerMessageCache' = <<>>

\* C19: Advance never reaches a fatal abort.  Every Peek that returns, with
\* a message or with an error, leaves advanceAction one of DelayedMessage,
\* Segment and Message, and with Segment an advanceSegmentTo above the
\* backend's position within the message; every Advance that returns has
\* applied exactly one of the three effects, the one of the recorded action,
\* and has reset advanceAction to Unknown and advanceSegmentTo to 0; and
\* the only panic under Advance is that of the Peek it calls on a batch
\* shorter than its header.
C19_AdvanceNeverAborts ==
    [][ /\ (lastOp' = "Peek" /\ status' = "running") =>
             /\ advanceAction' \in {AdvanceDelayedMessage, AdvanceSegment, AdvanceMessage}
             /\ advanceAction' = AdvanceSegment =>
                   advanceSegmentTo' > positionWithinMessage'
        /\ (lastOp' = "Advance" /\ status' = "panicked") =>
             (advanceAction = AdvanceUnknown /\ ShortHeader(seqInboxData[1]))
        /\ (lastOp' = "Advance" /\ status' = "running") =>
             /\ advanceAction' = AdvanceUnknown
             /\ advanceSegmentTo' = 0
             /\ DelayedMessageEffect \/ SegmentEffect \/ MessageEffect
             /\ advanceAction = AdvanceDelayedMessage => DelayedMessageEffect
             /\ advanceAction = AdvanceSegment => SegmentEffect
             /\ advanceAction = AdvanceMessage => MessageEffect ]_vars

\* An Advance has moved the backend on to the next segment after a Peek
\* that returned an error.
C19_Witness ==
    /\ lastOp = "Advance"
    /\ status = "running"
    /\ positionWithinMessage > 0
    /\ advanceAction = AdvanceUnknown
    /\ yields # <<>>
    /\ ~HasMessage(yields[Len(yields)].ret)
    /\ yields[Len(yields)].ret.err # "none"

\* What Peek returns when it decodes the batch at the cursor, no cache used.
UncachedPeek ==
    LET seqMsg == parseSequencerMessage(seqInboxData[1])
        scan == SkipTimingSegments(seqMsg.segments, positionWithinMessage, 0, 0)
        timestamp == ClampU64(scan.timestamp, seqMsg.minTimestamp, seqMsg.maxTimestamp)
        blockNumber == ClampU64(scan.blockNumber, seqMsg.minL1Block, seqMsg.maxL1Block)
    IN  SelectOutcome(seqMsg, scan.segmentNum, timestamp, blockNumber).ret

\* C20: the one-batch cache is never stale.  Whenever sequencerMessageCache
\* is set, sequencerMessageCachePosition is the backend's sequencer inbox
\* position and the cached record is the decoding of the batch at that
\* position; so what a Peek has returned is what a Peek that decodes the
\* batch anew, without the cache, returns.
C20_CacheNeverStale ==
    /\ sequencerMessageCache # <<>> =>
          /\ sequencerMessageCachePosition = seqInboxPosition
          /\ BatchReadable
          /\ sequencerMessageCache[1] = parseSequencerMessage(seqInboxData[1])
    /\ (lastOp = "Peek" /\ status = "running") => ret = UncachedPeek

\* A Peek has answered from the cache, at a position other than the first.
C20_Witness ==
    /\ lastOp = "Peek"
    /\ status = "running"
    /\ seqInboxPosition > 0
    /\ yields # <<>>
    /\ sequencerMessageCache # <<>>
    /\ HasMessage(ret)

\* C17: delayed messages are consumed in FIFO order without repetition or
\* gap, over any number of batches: the sequence numbers read from the
\* delayed inbox for the messages yielded in successive cycles are s, s+1,
\* s+2, ... from the initial delayedMessagesRead s on, so a delayed message
\* that Peek yields carries the number after that of the one yielded before.
C17_DelayedFifo ==
    (lastOp = "Peek" /\ status = "running" /\ IsDelayedYield(ret) /\ nextDelayed >= 0) =>
       ret.meta[1].Message.L2msg = ReadDelayedInbox(nextDelayed)

(***************************************************************************)
(* util/arbmath.  The operators take the width w of the machine word that  *)
(* stands for 64 bits: uint64 is 0..MaxU(w), int64 is MinI(w)..MaxI(w), and *)
(* Go's +, - and * wrap to the word.                                       *)
(***************************************************************************)
MaxU(w) == 2^w - 1

MaxI(w) == 2^(w - 1) - 1

MinI(w) == -(2^(w - 1))

\* The uint64 the ideal integer x wraps to.
WrapU(w, x) == x % 2^w

\* The int64 the ideal integer x wraps to (two's complement).
WrapI(w, x) == LET m == x % 2^w IN IF m > MaxI(w) THEN m - 2^w ELSE m

\* Go's x / y on int64, y # 0: the quotient truncated toward zero, wrapped
\* (MinInt64 / -1 is MinInt64).
QuoI(w, x, y) ==
    LET ax == IF x < 0 THEN -x ELSE x
        ay == IF y < 0 THEN -y ELSE y
        q  == ax \div ay
    IN  WrapI(w, IF (x < 0) = (y < 0) THEN q ELSE -q)

\* SaturatingAdd as it would be without the check for negative overflow.
SaturatingAddUnchecked(w, augend, addend) ==
    LET sum == WrapI(w, augend + addend)
    IN  IF addend > 0 /\ sum < augend THEN MaxI(w) ELSE sum

SaturatingAdd(w, augend, addend) ==
    LET sum  == WrapI(w, augend + addend)
        sum1 == IF addend > 0 /\ sum < augend THEN MaxI(w) ELSE sum
    IN  IF addend < 0 /\ sum1 > augend THEN MinI(w) ELSE sum1

SaturatingUAdd(w, augend, addend) ==
    LET sum == WrapU(w, augend + addend)
    IN  IF sum < augend \/ sum < addend THEN MaxU(w) ELSE sum

SaturatingSub(w, minuend, subtrahend) ==
    SaturatingAdd(w, minuend, WrapI(w, -subtrahend))

SaturatingUMul(w, multiplicand, multiplier) ==
    LET product == WrapU(w, multiplicand * multiplier)
    IN  IF multiplier # 0 /\ product \div multiplier # multiplicand
        THEN MaxU(w) ELSE product

SaturatingMul(w, multiplicand, multiplier) ==
    LET product == WrapI(w, multiplicand * multiplier)
    IN  IF multiplier # 0 /\ QuoI(w, product, multiplier) # multiplicand
        THEN (IF \/ (multiplicand > 0 /\ multiplier > 0)
                 \/ (multiplicand < 0 /\ multiplier < 0)
              THEN MaxI(w) ELSE MinI(w))
        ELSE product

(***************************************************************************)
(* The arbmath functions applied to arguments drawn in the initial state:  *)
(* every pair of words of WordBits bits, read as int64 or as uint64.       *)
(***************************************************************************)
\* The multiplexer is not in use.
NoInbox ==
    /\ seqInboxPosition = 0
    /\ positionWithinMessage = 0
    /\ seqInboxData = <<>>
    /\ lastAfterDelayed = 0
    /\ delayedMessagesRead = 0
    /\ advanceAction = AdvanceUnknown
    /\ advanceSegmentTo = 0
    /\ sequencerMessageCache = <<>>
    /\ sequencerMessageCachePosition = 0
    /\ status = "unused"
    /\ lastOp = "New"
    /\ ret = NilRet("none")
    /\ retSeg = 0
    /\ peekFrom = <<>>
    /\ yields = <<>>
    /\ startRead = 0

IsInt64(w, x) == MinI(w) <= x /\ x <= MaxI(w)

IsUint64(w, x) == 0 <= x /\ x <= MaxU(w)

InitMath ==
    /\ NoInbox
    /\ NoTrace
    /\ \E a \in MinI(WordBits)..MaxU(WordBits), b \in MinI(WordBits)..MaxU(WordBits) :
          /\ \/ IsInt64(WordBits, a) /\ IsInt64(WordBits, b)
             \/ IsUint64(WordBits, a) /\ IsUint64(WordBits, b)
          /\ input = <<a, b>>
    /\ call = "none"
    /\ result = <<>>

\* result' = <<f(input)>> for the function named.
Apply(name, value) ==
    /\ call = "none"
    /\ call' = name
    /\ result' = <<value>>
    /\ UNCHANGED <<input, inboxVars, traceVars>>

CallSaturatingAdd ==
    /\ IsInt64(WordBits, input[1]) /\ IsInt64(WordBits, input[2])
    /\ Apply("SaturatingAdd", SaturatingAdd(WordBits, input[1], input[2]))

CallSaturatingUAdd ==
    /\ IsUint64(WordBits, input[1]) /\ IsUint64(WordBits, input[2])
    /\ Apply("SaturatingUAdd", SaturatingUAdd(WordBits, input[1], input[2]))

CallSaturatingSub ==
    /\ IsInt64(WordBits, input[1]) /\ IsInt64(WordBits, input[2])
    /\ Apply("SaturatingSub", SaturatingSub(WordBits, input[1], input[2]))

CallSaturatingUMul ==
    /\ IsUint64(WordBits, input[1]) /\ IsUint64(WordBits, input[2])
    /\ Apply("SaturatingUMul", SaturatingUMul(WordBits, input[1], input[2]))

CallSaturatingMul ==
    /\ IsInt64(WordBits, input[1]) /\ IsInt64(WordBits, input[2])
    /\ Apply("SaturatingMul", SaturatingMul(WordBits, input[1], input[2]))

NextMath ==
    \/ CallSaturatingAdd
    \/ CallSaturatingUAdd
    \/ CallSaturatingSub
    \/ CallSaturatingUMul
    \/ CallSaturatingMul

SpecMath == InitMath /\ [][NextMath]_vars

\* The ideal integer x clamped to lo..hi.
Clamped(x, lo, hi) == IF x < lo THEN lo ELSE IF x > hi THEN hi ELSE x

\* C12: SaturatingUAdd(a, b) is min(a + b, MAX_U64) and SaturatingAdd(a, b) is
\* a + b clamped to [MIN_I64, MAX_I64], the sums taken over the integers.
C12_SaturatingAddLaw ==
    /\ call = "SaturatingUAdd" =>
          result[1] = Clamped(input[1] + input[2], 0, MaxU(WordBits))
    /\ call = "SaturatingAdd" =>
          result[1] = Clamped(input[1] + input[2], MinI(WordBits), MaxI(WordBits))

\* SaturatingAdd has saturated at the bottom of the range.
C12_Witness ==
    /\ call = "SaturatingAdd"
    /\ input[1] + input[2] < MinI(WordBits)
    /\ result[1] = MinI(WordBits)

\* C13: SaturatingSub(a, b) is a - b over the integers, clamped to
\* [MIN_I64, MAX_I64], for every a and b, b = MIN_I64 included.
C13_SaturatingSubLaw ==
    call = "SaturatingSub" =>
       result[1] = Clamped(input[1] - input[2], MinI(WordBits), MaxI(WordBits))

\* C14: SaturatingMul(a, b) is a * b over the integers, clamped to
\* [MIN_I64, MAX_I64], for every a and b, the pair (MIN_I64, -1) included, and
\* SaturatingUMul(a, b) is min(a * b, MAX_U64).
C14_SaturatingMulLaw ==
    /\ call = "SaturatingMul" =>
          result[1] = Clamped(input[1] * input[2], MinI(WordBits), MaxI(WordBits))
    /\ call = "SaturatingUMul" =>
          result[1] = Clamped(input[1] * input[2], 0, MaxU(WordBits))

(***************************************************************************)
(* ApproxSquareRoot.  A division by zero is the panic of the Go runtime.   *)
(***************************************************************************)
\* Width of the machine word ApproxSquareRoot is applied at.
SqrtBits == 9

NewtonIterations == 4

\* The loop that halves approx while SaturatingUMul(approx, approx)/2 > value.
RECURSIVE StartingApproximation(_, _, _)
StartingApproximation(w, approx, value) ==
    IF SaturatingUMul(w, approx, approx) \div 2 > value
    THEN StartingApproximation(w, approx \div 2, value)
    ELSE approx

\* One iteration of the second loop, approx # 0.
NewtonStep(w, approx, value) ==
    IF approx > value \div approx
    THEN LET diff == WrapU(w, approx - value \div approx)
         IN  SaturatingUAdd(w, value \div approx, diff \div 2)
    ELSE LET diff == WrapU(w, value \div approx - approx)
         IN  SaturatingUAdd(w, approx, diff \div 2)

RECURSIVE NewtonLoop(_, _, _, _)
NewtonLoop(w, approx, value, i) ==
    IF i >= NewtonIterations THEN [panic |-> FALSE, val |-> approx]
    ELSE IF approx = 0 THEN [panic |-> TRUE, val |-> 0]
    ELSE NewtonLoop(w, NewtonStep(w, approx, value), value, i + 1)

ApproxSquareRoot(w, value) ==
    IF value = 0 THEN [panic |-> FALSE, val |-> 0]
    ELSE NewtonLoop(w, StartingApproximation(w, value, value), value, 0)

InitSqrt ==
    /\ NoInbox
    /\ NoTrace
    /\ \E value \in 0..MaxU(SqrtBits) : input = <<value>>
    /\ call = "none"
    /\ result = <<>>

CallApproxSquareRoot ==
    /\ IsUint64(SqrtBits, input[1])
    /\ Apply("ApproxSquareRoot", ApproxSquareRoot(SqrtBits, input[1]))

NextSqrt == CallApproxSquareRoot

SpecSqrt == InitSqrt /\ [][NextSqrt]_vars

\* C15: for every v up to half the range of the word (2^63 of 2^64),
\* r = ApproxSquareRoot(v) is computed without a division by zero and
\* satisfies |r*r - v| <= 2*r + 1; and ApproxSquareRoot(0) = 0.
C15_SqrtErrorBound ==
    (call = "ApproxSquareRoot" /\ input[1] <= 2^(SqrtBits - 1)) =>
       LET v == input[1]
           r == result[1].val
           d == IF r * r >= v THEN r * r - v ELSE v - r * r
       IN  /\ ~result[1].panic
           /\ d <= 2 * r + 1
           /\ (v = 0 => r = 0)

(***************************************************************************)
(* The batch codec on bytes.  A batch is a sequence of bytes 0..255, the   *)
(* 40 bytes of the header, followed by the Brotli stream: a sequence of    *)
(* meta-blocks, each holding the bytes it decompresses to.                 *)
(***************************************************************************)
\* maxDecompressedLen, 16 MiB in the source, scaled to the model's segments.
maxDecompressedLen == 6

\* binary.BigEndian.PutUint64 and its inverse, on n bytes.
RECURSIVE PutUint(_, _)
PutUint(value, n) ==
    IF n = 0 THEN <<>> ELSE Append(PutUint(value \div 256, n - 1), value % 256)

RECURSIVE Uint(_)
Uint(bytes) ==
    IF bytes = <<>> THEN 0
    ELSE Uint(SubSeq(bytes, 1, Len(bytes) - 1)) * 256 + bytes[Len(bytes)]

\* The big-endian bytes of a length, without leading zeros.
RECURSIVE MinimalBytes(_)
MinimalBytes(value) ==
    IF value = 0 THEN <<>> ELSE Append(MinimalBytes(value \div 256), value % 256)

RECURSIVE Concat(_)
Concat(seqs) == IF seqs = <<>> THEN <<>> ELSE Head(seqs) \o Concat(Tail(seqs))

\* rlp.EncodeToBytes of a byte string as it would be with every string
\* given a length prefix.
RlpEncodeStringAlwaysPrefixed(b) ==
    IF Len(b) <= 55 THEN <<128 + Len(b)>> \o b
    ELSE <<183 + Len(MinimalBytes(Len(b)))>> \o MinimalBytes(Len(b)) \o b

\* rlp.EncodeToBytes of a byte string.
RlpEncodeString(b) ==
    IF Len(b) = 1 /\ b[1] < 128 THEN b
    ELSE IF Len(b) <= 55 THEN <<128 + Len(b)>> \o b
    ELSE <<183 + Len(MinimalBytes(Len(b)))>> \o MinimalBytes(Len(b)) \o b

\* rlp.EncodeToBytes(&m.segments): a list of byte strings.
RlpEncodeSegments(segments) ==
    LET payload == Concat([k \in 1..Len(segments) |-> RlpEncodeString(segments[k])])
    IN  IF Len(payload) <= 55 THEN <<192 + Len(payload)>> \o payload
        ELSE <<247 + Len(MinimalBytes(Len(payload)))>>
             \o MinimalBytes(Len(payload)) \o payload

\* The Brotli stream of a writer that was written to and flushed, Close
\* being deferred until the bytes have been taken: one meta-block.
BrotliFlushed(bytes) == << [metablock |-> bytes] >>

\* brotli.NewReader: the bytes the stream decompresses to.
BrotliRead(stream) == Concat([k \in 1..Len(stream) |-> stream[k].metablock])

\* io.LimitReader(r, n): the first n bytes.
LimitRead(bytes, n) == SubSeq(bytes, 1, IF Len(bytes) < n THEN Len(bytes) ELSE n)

Encode(m) ==
    PutUint(m.minTimestamp, 8) \o PutUint(m.maxTimestamp, 8)
    \o PutUint(m.minL1Block, 8) \o PutUint(m.maxL1Block, 8)
    \o PutUint(m.afterDelayedMessages, 8)
    \o BrotliFlushed(RlpEncodeSegments(m.segments))

\* The kind, header length and payload size of the RLP value at pos.
RlpHead(b, pos) ==
    IF pos > Len(b) THEN [err |-> TRUE, kind |-> "eof", hdr |-> 0, size |-> 0]
    ELSE LET t == b[pos]
             long == IF t < 192 THEN t - 183 ELSE t - 247
             sizeBytes == SubSeq(b, pos + 1, pos + long)
         IN  IF t < 128 THEN [err |-> FALSE, kind |-> "string", hdr |-> 0, size |-> 1]
             ELSE IF t < 184
             THEN [err  |-> t = 129 /\ (pos + 1 > Len(b) \/ b[pos + 1] < 128),
                   kind |-> "string", hdr |-> 1, size |-> t - 128]
             ELSE IF t >= 192 /\ t < 248
             THEN [err |-> FALSE, kind |-> "list", hdr |-> 1, size |-> t - 192]
             ELSE [err  |-> \/ pos + long > Len(b)
                            \/ sizeBytes[1] = 0
                            \/ Uint(sizeBytes) <= 55,
                   kind |-> IF t < 192 THEN "string" ELSE "list",
                   hdr  |-> 1 + long,
                   size |-> IF pos + long > Len(b) THEN 0 ELSE Uint(sizeBytes)]

\* The byte strings of a list payload b[pos..end].
RECURSIVE RlpDecodeStrings(_, _, _)
RlpDecodeStrings(b, pos, end) ==
    IF pos > end THEN [err |-> FALSE, val |-> <<>>]
    ELSE LET h == RlpHead(b, pos)
             last == pos + h.hdr + h.size - 1
             rest == RlpDecodeStrings(b, last + 1, end)
         IN  IF h.err \/ h.kind # "string" \/ last > end
             THEN [err |-> TRUE, val |-> <<>>]
             ELSE IF rest.err THEN rest
             ELSE [err |-> FALSE,
                   val |-> <<SubSeq(b, pos + h.hdr, last)>> \o rest.val]

\* rlp.NewStream(reader, limit).Decode(&segments)
RlpDecodeSegments(b, limit) ==
    LET h == RlpHead(b, 1)
    IN  IF h.err \/ h.kind # "list" THEN [err |-> TRUE, val |-> <<>>]
        ELSE IF h.hdr > limit \/ h.size > limit - h.hdr
        THEN [err |-> TRUE, val |-> <<>>]                       \* value too large
        ELSE IF Len(b) < h.hdr + h.size
        THEN [err |-> TRUE, val |-> <<>>]                       \* unexpected EOF
        ELSE RlpDecodeStrings(b, h.hdr + 1, h.hdr + h.size)

\* The batch as parseSequencerMessage reads it: the header words present,
\* and the segment list if the rest decompresses and decodes to one.
RawBatch(data) ==
    LET words == IF Len(data) < 40 THEN <<>>
                 ELSE [k \in 1..5 |-> Uint(SubSeq(data, 8 * k - 7, 8 * k))]
        reader == LimitRead(BrotliRead(SubSeq(data, 41, Len(data))), maxDecompressedLen)
        decoded == RlpDecodeSegments(reader, maxDecompressedLen)
    IN  [header |-> words,
         body   |-> IF Len(data) < 40 \/ decoded.err THEN <<>> ELSE <<decoded.val>>]

(***************************************************************************)
(* Encode and parseSequencerMessage applied to a sequencerMessage drawn in *)
(* the initial state.                                                      *)
(***************************************************************************)
HeaderPool ==
    { <<0, 0, 0, 0, 0>>,
      <<1, 2, 3, 4, 5>>,
      <<258, 65536, 16777215, 255, 256>> }

ByteStringPool ==
    { <<>>,                 \* the empty string
      <<0>>,                \* one byte below 0x80: encoded as itself
      <<127>>,
      <<128>>,              \* one byte from 0x80 on: encoded with a prefix
      <<1, 2>>,
      <<0, 4, 6>> }

MessagePool ==
    { [minTimestamp         |-> h[1],
       maxTimestamp         |-> h[2],
       minL1Block           |-> h[3],
       maxL1Block           |-> h[4],
       afterDelayedMessages |-> h[5],
       segments             |-> segs] :
        h \in HeaderPool,
        segs \in UNION { [1..k -> ByteStringPool] : k \in 0..MaxSegments } }

InitCodec ==
    /\ NoInbox
    /\ NoTrace
    /\ \E m \in MessagePool : input = <<m>>
    /\ call = "none"
    /\ result = <<>>

CallEncode ==
    /\ input[1] \in MessagePool
    /\ Apply("Encode", Encode(input[1]))

\* parseSequencerMessage on the bytes Encode returned.
CallParseSequencerMessage ==
    /\ call = "Encode"
    /\ call' = "parseSequencerMessage"
    /\ result' = LET data == RawBatch(result[1])
                 IN  IF ShortHeader(data) THEN <<"panic">>
                     ELSE <<parseSequencerMessage(data)>>
    /\ UNCHANGED <<input, inboxVars, traceVars>>

NextCodec == CallEncode \/ CallParseSequencerMessage

SpecCodec == InitCodec /\ [][NextCodec]_vars

\* The number of bytes of the segments together.
RECURSIVE AggregateSize(_)
AggregateSize(segments) ==
    IF segments = <<>> THEN 0 ELSE Len(Head(segments)) + AggregateSize(Tail(segments))

\* C16 as stated: for every sequencerMessage m whose segments are together
\* under maxDecompressedLen bytes, parseSequencerMessage(m.Encode()) is a
\* record equal to m.
C16_RoundTripUnderAggregateSize ==
    (call = "parseSequencerMessage"
       /\ AggregateSize(input[1].segments) < maxDecompressedLen) =>
       result[1] = input[1]

\* C16, amended: for every sequencerMessage m the RLP encoding of whose
\* segment list is at most maxDecompressedLen bytes,
\* parseSequencerMessage(m.Encode()) is a record equal to m: the five header
\* fields and the segments in order.
C16_RoundTripUnderEncodedSize ==
    (call = "parseSequencerMessage"
       /\ Len(RlpEncodeSegments(input[1].segments)) <= maxDecompressedLen) =>
       result[1] = input[1]

\* A message with header fields of several bytes and two segments, encoded
\* to exactly maxDecompressedLen bytes, has come back equal.
C16_Witness ==
    /\ call = "parseSequencerMessage"
    /\ result[1] = input[1]
    /\ input[1].minTimestamp > 255
    /\ Len(input[1].segments) = 2
    /\ Len(RlpEncodeSegments(input[1].segments)) = maxDecompressedLen

====
